---- MODULE Spec2Model ----
(***************************************************************************)
(* nix-olde: the acquisition-and-reconciliation engine.                    *)
(*                                                                         *)
(*   main (src/main.rs) starts three scoped threads: the repology fetch,   *)
(*   the installed-package load and the available-package load, which      *)
(*   share one AtomicBool, cancel_fetch.  After the scope has joined all   *)
(*   three it aggregates the errors, or joins the three sets and prints    *)
(*   the report.                                                           *)
(*                                                                         *)
(*   The fetch is repology::get_packages (src/repology.rs), called with    *)
(*   the closure || cancel_fetch.load(Relaxed) as its cancel poll.         *)
(*                                                                         *)
(* Strings that the code orders (BTreeSet / BTreeMap keys, sort()) are     *)
(* sequences of byte codes, compared as Rust compares str; Option<T> is    *)
(* <<>> (None) or <<x>> (Some(x)).                                         *)
(***************************************************************************)
EXTENDS Integers, Sequences, FiniteSets, TLC

(***************************************************************************)
(* Bounds of the model.                                                    *)
(***************************************************************************)
\* number of distinct project keys the upstream may serve ("a", "b", ...)
NumKeys == 2
\* page requests one fetch may issue before the model stops following it
MaxRequests == 3
\* instant from which the clock stands still: no tick and no sleep moves it
\* once it is there (a sleep begun earlier may end later)
MaxClock == 5
\* clock ticks per second
TicksPerSecond == 2

(***************************************************************************)
(* Option, Result, errors.                                                 *)
(***************************************************************************)
None == <<>>
Some(x) == <<x>>

Ok(v) == [tag |-> "Ok", val |-> v]
Err(e) == [tag |-> "Err", val |-> e]
is_ok(res) == res.tag = "Ok"
is_err(res) == res.tag = "Err"

\* OldeError: a kind, the text it carries, and (MultipleErrors) its entries
OldeError(kind, what) == [kind |-> kind, what |-> what, errs |-> <<>>]
MultipleErrors(errs) == [kind |-> "MultipleErrors", what |-> "", errs |-> errs]
Canceled == OldeError("Canceled", "Repology fetch")

(***************************************************************************)
(* Strings as byte sequences, ordered as Rust orders str.                  *)
(***************************************************************************)
RECURSIVE StrLess(_, _)
StrLess(s, t) ==
    IF t = <<>> THEN FALSE
    ELSE IF s = <<>> THEN TRUE
    ELSE IF Head(s) # Head(t) THEN Head(s) < Head(t)
    ELSE StrLess(Tail(s), Tail(t))

\* Option<String>: None < Some(_)
OptLess(x, y) ==
    IF y = None THEN FALSE
    ELSE IF x = None THEN TRUE
    ELSE StrLess(x[1], y[1])

\* a set of strings in ascending order (iteration order of BTreeMap keys)
SortedStrs(S) ==
    [k \in 1..Cardinality(S) |->
        CHOOSE x \in S : Cardinality({y \in S : StrLess(y, x)}) = k - 1]

(***************************************************************************)
(* repology: the decoded page and the records made from it.                *)
(***************************************************************************)
\* "newest", "unique", "outdated" and the versions "1", "2"
newest == <<110, 101, 119, 101, 115, 116>>
unique == <<117, 110, 105, 113, 117, 101>>
outdated == <<111, 117, 116, 100, 97, 116, 101, 100>>
V1 == <<49>>
V2 == <<50>>
\* the srcname "p" and "q"
SrcP == <<112>>
SrcQ == <<113>>

\* --repology-repo, and some other repository of the listing
repology_repo == "nix_unstable"
other_repo == "debian_12"

\* struct Repology of get_packages: one entry of a project's list
Repology(repo, srcname, version, status) ==
    [repo |-> repo, srcname |-> srcname, version |-> version, status |-> status]

\* struct Package of repology.rs
Package(n, sn, version, status, latest) ==
    [repology_name |-> n, nixpkgs_attribute |-> sn, version |-> version,
     status |-> status, latest |-> latest]

\* derive(Ord) on Package: field by field, in declaration order
PackageLess(x, y) ==
    IF x.repology_name # y.repology_name
        THEN StrLess(x.repology_name, y.repology_name)
    ELSE IF x.nixpkgs_attribute # y.nixpkgs_attribute
        THEN StrLess(x.nixpkgs_attribute, y.nixpkgs_attribute)
    ELSE IF x.version # y.version THEN OptLess(x.version, y.version)
    ELSE IF x.status # y.status THEN OptLess(x.status, y.status)
    ELSE OptLess(x.latest, y.latest)

\* a BTreeSet<Package> in iteration order
SortedPackages(S) ==
    [k \in 1..Cardinality(S) |->
        CHOOSE x \in S : Cardinality({y \in S : PackageLess(y, x)}) = k - 1]

\* the project keys "a", "b", ... the upstream serves
ProjectKeys == {<<96 + k>> : k \in 1..NumKeys}

\* entries the upstream lists for a project
E_out == Repology(repology_repo, Some(SrcP), Some(V1), Some(outdated))
E_uni == Repology(repology_repo, Some(SrcQ), Some(V1), Some(unique))
E_new == Repology(other_repo, None, Some(V2), Some(newest))
E_nosrc == Repology(repology_repo, None, Some(V1), Some(outdated))
E_nover == Repology(other_repo, None, None, Some(newest))

\* the entry lists a page may carry for one project
EntryLists ==
    { <<E_out, E_new, E_uni>>,
      <<E_uni, E_new>>,
      <<E_nosrc, E_out, E_nover, E_new>> }

\* every page the upstream may answer with: BTreeMap<String, Vec<Repology>>,
\* of no, one or two projects
Pages ==
    UNION {[K -> EntryLists] : K \in {S \in SUBSET ProjectKeys : Cardinality(S) <= 2}}

\* a listing of one-project pages with one outdated entry each
RatePages == {<<>>} \cup {[K \in {k} |-> <<E_out>>] : k \in ProjectKeys}

\* a short listing: an empty page, and the pages that hold one project
FewPages == {<<>>} \cup UNION {[{k} -> EntryLists] : k \in ProjectKeys}

\* the last entry whose status is newest or unique
RECURSIVE find_newest_last(_)
find_newest_last(vs) ==
    IF vs = <<>> THEN None
    ELSE LET later == find_newest_last(Tail(vs))
         IN  IF later # None THEN later
             ELSE IF Head(vs).status = Some(newest) \/ Head(vs).status = Some(unique)
                  THEN Some(Head(vs))
             ELSE None

\* vs.iter().find_map(..): the first entry whose status is newest or unique
RECURSIVE find_newest(_)
find_newest(vs) ==
    IF vs = <<>> THEN None
    ELSE IF Head(vs).status = Some(newest) \/ Head(vs).status = Some(unique)
         THEN Some(Head(vs))
    ELSE find_newest(Tail(vs))

\* let latest = match olatest_entry { None => None, Some(oe) => oe.version }
latest_of(vs) ==
    LET olatest_entry == find_newest(vs)
    IN  IF olatest_entry = None THEN None ELSE olatest_entry[1].version

\* a walk of the entries that ends at the first one without srcname
RECURSIVE insert_entries_until(_, _, _, _)
insert_entries_until(acc, n, vs, latest) ==
    IF vs = <<>> THEN acc
    ELSE LET v == Head(vs)
         IN  IF v.repo # repology_repo THEN insert_entries_until(acc, n, Tail(vs), latest)
             ELSE IF v.srcname = None THEN acc
             ELSE insert_entries_until(
                    acc \cup {Package(n, v.srcname[1], v.version, v.status, latest)},
                    n, Tail(vs), latest)

\* for v in vs: the records inserted for project n
RECURSIVE insert_entries(_, _, _, _)
insert_entries(acc, n, vs, latest) ==
    IF vs = <<>> THEN acc
    ELSE LET v == Head(vs)
         IN  IF v.repo # repology_repo THEN insert_entries(acc, n, Tail(vs), latest)
             ELSE IF v.srcname = None THEN insert_entries(acc, n, Tail(vs), latest)
             ELSE insert_entries(
                    acc \cup {Package(n, v.srcname[1], v.version, v.status, latest)},
                    n, Tail(vs), latest)

\* a walk that keeps the records of the page alone
RECURSIVE process_page_fresh(_, _, _)
process_page_fresh(st, keys, pkgs) ==
    IF keys = <<>> THEN [next_suffix |-> st.next_suffix, r |-> {}]
    ELSE LET n == keys[Len(keys)]
             vs == pkgs[n]
             rest == process_page_fresh(st, SubSeq(keys, 1, Len(keys) - 1), pkgs)
         IN  [next_suffix |-> n \o <<47>>,
              r |-> insert_entries(rest.r, n, vs, latest_of(vs))]

\* a walk that leaves the cursor at the first key of the page
RECURSIVE process_page_first(_, _, _)
process_page_first(st, keys, pkgs) ==
    IF keys = <<>> THEN st
    ELSE LET n == Head(keys)
             vs == pkgs[n]
             rest == process_page_first(st, Tail(keys), pkgs)
         IN  [next_suffix |-> n \o <<47>>,
              r |-> insert_entries(rest.r, n, vs, latest_of(vs))]

\* for (n, vs) in &pkgs: walks the page in key order; st = [next_suffix, r]
RECURSIVE process_page(_, _, _)
process_page(st, keys, pkgs) ==
    IF keys = <<>> THEN st
    ELSE LET n == Head(keys)
             vs == pkgs[n]
         IN  process_page(
                [next_suffix |-> n \o <<47>>,
                 r |-> insert_entries(st.r, n, vs, latest_of(vs))],
                Tail(keys), pkgs)

\* the keys of a BTreeMap in iteration order
page_keys(pkgs) == SortedStrs(DOMAIN pkgs)

(***************************************************************************)
(* The local loaders: installed::get_packages, available::get_packages.    *)
(***************************************************************************)
\* the names "x", "y" and the attributes "A", "B", "C"
NameX == <<120>>
NameY == <<121>>
AttrA == <<65>>
AttrB == <<66>>
AttrC == <<67>>

\* a thread that panicked leaves no Result
Panic(what) == [tag |-> "Panic", val |-> what]

\* struct Package of installed.rs, and derive(Ord) on it
Installed(name, version) == [name |-> name, version |-> version]
InstalledLess(x, y) ==
    IF x.name # y.name THEN StrLess(x.name, y.name)
    ELSE StrLess(x.version, y.version)

\* struct Package of available.rs, and derive(Ord) on it
Available(attribute, name, pname, version) ==
    [attribute |-> attribute, name |-> name, pname |-> pname, version |-> version]
AvailableLess(x, y) ==
    IF x.attribute # y.attribute THEN StrLess(x.attribute, y.attribute)
    ELSE IF x.name # y.name THEN StrLess(x.name, y.name)
    ELSE IF x.pname # y.pname THEN StrLess(x.pname, y.pname)
    ELSE StrLess(x.version, y.version)

\* the two BTreeSets in iteration order
SortedInstalled(S) ==
    [k \in 1..Cardinality(S) |->
        CHOOSE x \in S : Cardinality({y \in S : InstalledLess(y, x)}) = k - 1]

SortedAvailable(S) ==
    [k \in 1..Cardinality(S) |->
        CHOOSE x \in S : Cardinality({y \in S : AvailableLess(y, x)}) = k - 1]

\* struct DrvEnv { name: Option<String>, version: Option<String> }
DrvEnv(name, version) == [name |-> name, version |-> version]

\* what the local tools may answer to the installed loader
FewInstalledRuns ==
    [flake : {"ok"}, nixos : {"ok"}, show : {"ok"},
     drvs : { {}, {DrvEnv(Some(NameX), Some(V1)), DrvEnv(Some(NameY), Some(V1))} }]

InstalledRuns ==
    [flake : {"ok", "fail"}, nixos : {"ok", "fail"},
     show : {"ok", "fail", "garbage"},
     drvs : { {},
              {DrvEnv(Some(NameX), None), DrvEnv(None, None)},
              {DrvEnv(Some(NameX), Some(V1)), DrvEnv(Some(NameY), None)},
              {DrvEnv(Some(NameX), Some(V2)), DrvEnv(Some(NameY), Some(V1))} }]

\* the methods get_local_system_derivation calls, in the order of the calls
methods_run(run) ==
    IF run.flake = "ok" THEN <<"flake">> ELSE <<"flake", "nixos">>

\* a resolution that tries nixos first
get_local_system_derivation_nixos_first(run) ==
    IF run.nixos = "ok" THEN Ok("nixos drv")
    ELSE IF run.flake = "ok" THEN Ok("flake drv")
    ELSE Err(MultipleErrors(<<OldeError("CommandFailed", "nix-instantiate"),
                              OldeError("CommandFailed", "nix eval")>>))

\* get_local_system_derivation: flakes first, then nixos
get_local_system_derivation(run) ==
    IF run.flake = "ok" THEN Ok("flake drv")
    ELSE IF run.nixos = "ok" THEN Ok("nixos drv")
    ELSE Err(MultipleErrors(<<OldeError("CommandFailed", "nix eval"),
                              OldeError("CommandFailed", "nix-instantiate")>>))

\* a loader that takes no packages for an answer
installed_get_packages_lax(run) ==
    LET drv_path == get_local_system_derivation(run)
        rr == {Installed(e.name[1], e.version[1]) :
                  e \in {d \in run.drvs : d.name # None /\ d.version # None}}
    IN  IF is_err(drv_path) THEN drv_path
        ELSE IF run.show = "fail"
            THEN Err(OldeError("CommandFailed", "nix show-derivation"))
        ELSE IF run.show = "garbage" THEN Panic("valid json")
        ELSE Ok(rr)

\* installed::get_packages
installed_get_packages(run) ==
    LET drv_path == get_local_system_derivation(run)
        rr == {Installed(e.name[1], e.version[1]) :
                  e \in {d \in run.drvs : d.name # None /\ d.version # None}}
    IN  IF is_err(drv_path) THEN drv_path
        ELSE IF run.show = "fail"
            THEN Err(OldeError("CommandFailed", "nix show-derivation"))
        ELSE IF run.show = "garbage" THEN Panic("valid json")
        ELSE IF rr = {} THEN Err(OldeError("EmptyOutput", "nix show-derivation"))
        ELSE Ok(rr)

\* what the local tools may answer to the available loader
FewAvailableRuns ==
    [canonicalize : {"ok"}, archive : {"ok"}, query : {"ok"},
     ps : { {Available(AttrA, NameX, SrcP, V1), Available(AttrB, NameY, SrcQ, V1)} }]

\* archive: the command failed, or gave json that names a nixpkgs input
\* ("ok"), json that names none ("noinput"), or no json ("garbage")
AvailableRuns ==
    [canonicalize : {"ok", "fail"}, archive : {"ok", "noinput", "fail", "garbage"},
     query : {"ok", "fail", "garbage"},
     ps : { {},
            {Available(AttrA, NameX, SrcP, V1)},
            {Available(AttrA, NameX, SrcP, V1), Available(AttrB, NameY, SrcQ, V1)} }]

\* let mut cmd = vec!["nix-env", "-qa", "--json", ..]
nix_env_cmd == <<"nix-env", "-qa", "--json">>

\* the steps available::get_packages takes, in their order, when it is called
\* without a nixpkgs override
available_steps(run) ==
    IF run.canonicalize = "fail" THEN <<"canonicalize">>
    ELSE IF run.archive = "garbage" THEN <<"canonicalize", "flake archive">>
    ELSE <<"canonicalize", "flake archive", "nix-env">>

\* cmd as it is when run_cmd(&cmd) is reached: extended by -I and -f only
\* when the archive named a nixpkgs input
query_cmd(run) ==
    IF run.archive = "ok"
    THEN nix_env_cmd \o <<"-I", "nixpkgs=path", "-f", "path">>
    ELSE nix_env_cmd

\* available::get_packages, called without a nixpkgs override
available_get_packages(run) ==
    IF run.canonicalize = "fail" THEN Err(OldeError("IOError", "canonicalize"))
    ELSE IF run.archive = "garbage" THEN Panic("valid json")
    ELSE IF run.query = "fail" THEN Err(OldeError("CommandFailed", "nix-env"))
    ELSE IF run.query = "garbage" THEN Panic("valid json")
    ELSE IF run.ps = {} THEN Err(OldeError("EmptyOutput", "nix-env query"))
    ELSE Ok(run.ps)

(***************************************************************************)
(* State.                                                                  *)
(***************************************************************************)
VARIABLES
    mainPc,           \* where main is
    taskPc,           \* where each scoped thread is
    r, i, a,          \* main's three result slots
    cancel_fetch,     \* the shared AtomicBool
    fetchPc,          \* where repology::get_packages is
    fetch_r,          \* its local r: the records accumulated so far
    suffix,           \* its pagination cursor
    next_fetch_time,  \* the instant it may start the next fetch
    now,              \* its local now
    wake,             \* the instant its sleep may return
    contents,         \* the answer of the curl in flight
    clock,            \* Instant::now()
    ret,              \* what main returned
    printed,          \* the report lines main printed
    known_versions,   \* the join's rows, by repology name
    missing_available,
    missing_repology,
    before,           \* history: what the run before this one reported
    polls,            \* history: cancel polls made
    requests,         \* history: curl commands started
    reqStart,         \* history: start of the latest curl
    prevEnd,          \* history: end of the curl before the latest one
    lastEnd,          \* history: end of the latest finished curl
    firstStart,       \* history: start of the first curl
    served,           \* history: per decoded page, its cursor and its keys
    lastPage,         \* history: the page of the iteration that just ended, and
                      \* the records it gave
    late              \* history of the fetch in progress: sleeps ended and
                      \* curls started with the flag set

vars == <<mainPc, taskPc, r, i, a, cancel_fetch, fetchPc, fetch_r, suffix,
          next_fetch_time, now, wake, contents, clock, ret, printed,
          known_versions, missing_available, missing_repology, before, polls,
          requests,
          reqStart, prevEnd, lastEnd, firstStart, served, lastPage, late>>

joinVars == <<known_versions, missing_available, missing_repology, before>>
mainVars == <<mainPc, ret, printed, joinVars>>
fetchVars == <<fetchPc, fetch_r, suffix, next_fetch_time, now, wake, contents>>
histVars == <<polls, requests, reqStart, prevEnd, lastEnd, firstStart, served,
              lastPage, late>>

Tasks == {"r", "i", "a"}

\* let min_fetch_interval = Duration::from_secs(1)
min_fetch_interval == 1 * TicksPerSecond

Init ==
    /\ mainPc = "spawn_r"
    /\ taskPc = [t \in Tasks |-> "unspawned"]
    /\ r = Ok({})
    /\ i = Ok({})
    /\ a = Ok({})
    /\ cancel_fetch = FALSE
    /\ fetchPc = "enter"
    /\ fetch_r = {}
    /\ suffix = <<>>
    /\ next_fetch_time = 0
    /\ now = 0
    /\ wake = 0
    /\ contents = None
    /\ clock = 0
    /\ ret = None
    /\ printed = <<>>
    /\ known_versions = <<>>
    /\ missing_available = <<>>
    /\ missing_repology = <<>>
    /\ before = None
    /\ polls = 0
    /\ requests = 0
    /\ reqStart = None
    /\ prevEnd = None
    /\ lastEnd = None
    /\ firstStart = None
    /\ served = <<>>
    /\ lastPage = None
    /\ late = [sleeps |-> 0, requests |-> 0]

(***************************************************************************)
(* main: the scope and its three threads.                                  *)
(***************************************************************************)
\* s.spawn(..), three times, in program order
Spawn(t, here, next) ==
    /\ mainPc = here
    /\ mainPc' = next
    /\ taskPc' = [taskPc EXCEPT ![t] = "call"]
    /\ UNCHANGED <<r, i, a, cancel_fetch, fetchVars, clock, ret, printed, joinVars,
                   histVars>>

SpawnRepology == Spawn("r", "spawn_r", "spawn_i")
SpawnInstalled == Spawn("i", "spawn_i", "spawn_a")
SpawnAvailable == Spawn("a", "spawn_a", "scope_end")

\* a loader that gives up when it finds the flag set
InstalledCall_polling(runs) ==
    /\ taskPc["i"] = "call"
    /\ \E run \in runs :
         LET res == IF cancel_fetch THEN Err(OldeError("EmptyOutput", "gave up"))
                    ELSE installed_get_packages(run)
         IN  IF res.tag = "Panic"
             THEN /\ taskPc' = [taskPc EXCEPT !["i"] = "panicked"]
                  /\ i' = i
             ELSE /\ taskPc' = [taskPc EXCEPT !["i"] = "stored"]
                  /\ i' = res
    /\ UNCHANGED <<mainVars, r, a, cancel_fetch, fetchVars, clock, histVars>>

\* i = get_local_installed_packages(..)
InstalledCall(runs) ==
    /\ taskPc["i"] = "call"
    /\ \E run \in runs :
         LET res == installed_get_packages(run)
         IN  IF res.tag = "Panic"
             THEN /\ taskPc' = [taskPc EXCEPT !["i"] = "panicked"]
                  /\ i' = i
             ELSE /\ taskPc' = [taskPc EXCEPT !["i"] = "stored"]
                  /\ i' = res
    /\ UNCHANGED <<mainVars, r, a, cancel_fetch, fetchVars, clock, histVars>>

\* a = get_local_available_packages(..)
AvailableCall(runs) ==
    /\ taskPc["a"] = "call"
    /\ \E run \in runs :
         LET res == available_get_packages(run)
         IN  IF res.tag = "Panic"
             THEN /\ taskPc' = [taskPc EXCEPT !["a"] = "panicked"]
                  /\ a' = a
             ELSE /\ taskPc' = [taskPc EXCEPT !["a"] = "stored"]
                  /\ a' = res
    /\ UNCHANGED <<mainVars, r, i, cancel_fetch, fetchVars, clock, histVars>>

\* if x.is_err() { cancel_fetch.store(true, Relaxed) }
slot(t) == IF t = "r" THEN r ELSE IF t = "i" THEN i ELSE a

\* a failed thread that also ends the fetch through the fetch's slot
RaiseFlag_poison(t) ==
    /\ taskPc[t] = "stored"
    /\ taskPc' = [taskPc EXCEPT ![t] = "done"]
    /\ cancel_fetch' = IF is_err(slot(t)) THEN TRUE ELSE cancel_fetch
    /\ r' = IF is_err(slot(t)) THEN Err(Canceled) ELSE r
    /\ UNCHANGED <<mainVars, i, a, fetchVars, clock, histVars>>

\* a thread that stores whether it failed
RaiseFlag_clear(t) ==
    /\ taskPc[t] = "stored"
    /\ taskPc' = [taskPc EXCEPT ![t] = "done"]
    /\ cancel_fetch' = is_err(slot(t))
    /\ UNCHANGED <<mainVars, r, i, a, fetchVars, clock, histVars>>

\* a thread that stores true when it is over, failed or not
RaiseFlag_always(t) ==
    /\ taskPc[t] = "stored"
    /\ taskPc' = [taskPc EXCEPT ![t] = "done"]
    /\ cancel_fetch' = TRUE
    /\ UNCHANGED <<mainVars, r, i, a, fetchVars, clock, histVars>>

\* a thread that forgets the store
RaiseFlag_forgot(t) ==
    /\ taskPc[t] = "stored"
    /\ taskPc' = [taskPc EXCEPT ![t] = "done"]
    /\ UNCHANGED <<mainVars, r, i, a, cancel_fetch, fetchVars, clock, histVars>>

RaiseFlag(t) ==
    /\ taskPc[t] = "stored"
    /\ taskPc' = [taskPc EXCEPT ![t] = "done"]
    /\ cancel_fetch' = IF is_err(slot(t)) THEN TRUE ELSE cancel_fetch
    /\ UNCHANGED <<mainVars, r, i, a, fetchVars, clock, histVars>>

RepologyFlag == RaiseFlag("r")
InstalledFlag == RaiseFlag("i")
AvailableFlag == RaiseFlag("a")

\* a scoped thread is over once it returned or panicked
finished(t) == taskPc[t] \in {"done", "panicked"}

\* a scope that waits for the first thread alone
ScopeEnd_early ==
    /\ mainPc = "scope_end"
    /\ finished("r")
    /\ mainPc' = IF \E t \in Tasks : taskPc[t] = "panicked"
                 THEN "panicked" ELSE "check"
    /\ UNCHANGED <<taskPc, r, i, a, cancel_fetch, fetchVars, clock, ret, printed,
                   joinVars, histVars>>

\* std::thread::scope returns when every spawned thread is over, and panics
\* itself if one of them panicked
ScopeEnd ==
    /\ mainPc = "scope_end"
    /\ \A t \in Tasks : finished(t)
    /\ mainPc' = IF \E t \in Tasks : taskPc[t] = "panicked"
                 THEN "panicked" ELSE "check"
    /\ UNCHANGED <<taskPc, r, i, a, cancel_fetch, fetchVars, clock, ret, printed,
                   joinVars, histVars>>

(***************************************************************************)
(* repology::get_packages, run by the first thread:                        *)
(*     r = get_packages(repo, &|| cancel_fetch.load(Relaxed))              *)
(***************************************************************************)
inFetch(pc) == taskPc["r"] = "call" /\ fetchPc = pc

\* return res: the thread assigns the value to its slot
FetchReturn(res) ==
    /\ r' = res
    /\ taskPc' = [taskPc EXCEPT !["r"] = "stored"]
    /\ late' = [sleeps |-> 0, requests |-> 0]

\* let mut r = BTreeSet::new(); suffix = ""; next_fetch_time = Instant::now()
FetchEnter ==
    /\ inFetch("enter")
    /\ fetch_r' = {}
    /\ suffix' = <<>>
    /\ next_fetch_time' = clock
    /\ fetchPc' = "poll"
    /\ UNCHANGED <<mainVars, taskPc, r, i, a, cancel_fetch, now, wake, contents,
                   clock, histVars>>

\* a loop head that does not look at the flag
FetchPoll_deaf ==
    /\ inFetch("poll")
    /\ polls' = polls + 1
    /\ lastPage' = None
    /\ fetchPc' = "now"
    /\ UNCHANGED <<mainVars, taskPc, r, i, a, cancel_fetch, fetch_r, suffix,
                   next_fetch_time, now, wake, contents, clock, requests, reqStart,
                   prevEnd, lastEnd, firstStart, served, late>>

\* a loop that looks at the flag before its first request alone
FetchPoll_first ==
    /\ inFetch("poll")
    /\ polls' = polls + 1
    /\ lastPage' = None
    /\ IF cancel_fetch /\ requests = 0
       THEN /\ FetchReturn(Err(Canceled))
            /\ fetchPc' = "returned"
       ELSE /\ fetchPc' = "now"
            /\ UNCHANGED <<r, taskPc, late>>
    /\ UNCHANGED <<mainVars, i, a, cancel_fetch, fetch_r, suffix, next_fetch_time,
                   now, wake, contents, clock, requests, reqStart, prevEnd,
                   lastEnd, firstStart, served>>

\* loop { if cancel_fetch() { return Err(Canceled) }
FetchPoll ==
    /\ inFetch("poll")
    /\ polls' = polls + 1
    /\ lastPage' = None
    /\ IF cancel_fetch
       THEN /\ FetchReturn(Err(Canceled))
            /\ fetchPc' = "returned"
       ELSE /\ fetchPc' = "now"
            /\ UNCHANGED <<r, taskPc, late>>
    /\ UNCHANGED <<mainVars, i, a, cancel_fetch, fetch_r, suffix, next_fetch_time,
                   now, wake, contents, clock, requests, reqStart, prevEnd,
                   lastEnd, firstStart, served>>

\* let now = Instant::now()
FetchNow ==
    /\ inFetch("now")
    /\ now' = clock
    /\ fetchPc' = "throttle"
    /\ UNCHANGED <<mainVars, taskPc, r, i, a, cancel_fetch, fetch_r, suffix,
                   next_fetch_time, wake, contents, clock, histVars>>

\* a loop without throttling
FetchThrottle_none ==
    /\ inFetch("throttle")
    /\ wake' = wake
    /\ fetchPc' = "request"
    /\ UNCHANGED <<mainVars, taskPc, r, i, a, cancel_fetch, fetch_r, suffix,
                   next_fetch_time, now, contents, clock, histVars>>

\* if now.lt(&next_fetch_time) { sleep(next_fetch_time - now) }
FetchThrottle ==
    /\ inFetch("throttle")
    /\ IF now < next_fetch_time
       THEN /\ wake' = clock + (next_fetch_time - now)
            /\ fetchPc' = "sleep"
       ELSE /\ wake' = wake
            /\ fetchPc' = "request"
    /\ UNCHANGED <<mainVars, taskPc, r, i, a, cancel_fetch, fetch_r, suffix,
                   next_fetch_time, now, contents, clock, histVars>>

\* std::thread::sleep(delay) returns once at least delay has passed: the clock
\* is then at wake or later
FetchWake ==
    /\ inFetch("sleep")
    /\ clock < MaxClock
    /\ clock' = IF clock < wake THEN wake ELSE clock
    /\ fetchPc' = "request"
    /\ late' = IF cancel_fetch THEN [late EXCEPT !.sleeps = @ + 1] ELSE late
    /\ UNCHANGED <<mainVars, taskPc, r, i, a, cancel_fetch, fetch_r, suffix,
                   next_fetch_time, now, wake, contents, polls, requests, reqStart,
                   prevEnd, lastEnd, firstStart, served, lastPage>>

\* run_cmd(&["curl", .., &url]): the command starts
FetchRequest ==
    /\ inFetch("request")
    /\ requests < MaxRequests
    /\ requests' = requests + 1
    /\ reqStart' = Some(clock)
    /\ prevEnd' = lastEnd
    /\ firstStart' = IF firstStart = None THEN Some(clock) ELSE firstStart
    /\ fetchPc' = "curl"
    /\ late' = IF cancel_fetch THEN [late EXCEPT !.requests = @ + 1] ELSE late
    /\ UNCHANGED <<mainVars, taskPc, r, i, a, cancel_fetch, fetch_r, suffix,
                   next_fetch_time, now, wake, contents, clock, polls, lastEnd,
                   served, lastPage>>

\* the bytes curl wrote: the page they decode to, if they decode
Body(json, pkgs) == [json |-> json, pkgs |-> pkgs]

\* what one curl may end with: it cannot be spawned, the server answers with
\* an error status, or the body is a page or is not the expected JSON
CurlOutcomes(pages) ==
    {Err(OldeError("IOError", "curl")), Err(OldeError("CommandFailed", "curl"))}
        \cup {Ok(Body(TRUE, pkgs)) : pkgs \in pages}
        \cup {Ok(Body(FALSE, <<>>))}

\* a fetch that asks again after a failed request
FetchCurlEnd_retry(pages) ==
    /\ inFetch("curl")
    /\ lastEnd' = Some(clock)
    /\ \E out \in CurlOutcomes(pages) :
         IF is_err(out)
         THEN /\ fetchPc' = "request"
              /\ contents' = contents
         ELSE /\ contents' = Some(out.val)
              /\ fetchPc' = "page"
    /\ UNCHANGED <<mainVars, taskPc, r, i, a, cancel_fetch, fetch_r, suffix,
                   next_fetch_time, now, wake, clock, polls, requests, reqStart,
                   prevEnd, firstStart, served, lastPage, late>>

\* run_cmd(..)?: the command ends
FetchCurlEnd(pages) ==
    /\ inFetch("curl")
    /\ lastEnd' = Some(clock)
    /\ \E out \in CurlOutcomes(pages) :
         IF is_err(out)
         THEN /\ FetchReturn(out)
              /\ fetchPc' = "returned"
              /\ contents' = contents
         ELSE /\ contents' = Some(out.val)
              /\ fetchPc' = "page"
              /\ UNCHANGED <<r, taskPc, late>>
    /\ UNCHANGED <<mainVars, i, a, cancel_fetch, fetch_r, suffix, next_fetch_time,
                   now, wake, clock, polls, requests, reqStart, prevEnd,
                   firstStart, served, lastPage>>

\* a loop without the test that ends it
FetchPage_noend ==
    /\ inFetch("page")
    /\ contents[1].json
    /\ next_fetch_time' = clock + min_fetch_interval
    /\ contents' = None
    /\ LET pkgs == contents[1].pkgs
           st == process_page([next_suffix |-> suffix, r |-> fetch_r],
                              page_keys(pkgs), pkgs)
       IN  /\ fetch_r' = st.r
           /\ served' = Append(served, [cursor |-> suffix, keys |-> DOMAIN pkgs])
           /\ lastPage' = Some([pkgs |-> pkgs, emitted |-> st.r])
           /\ suffix' = st.next_suffix
           /\ fetchPc' = "poll"
    /\ UNCHANGED <<mainVars, taskPc, r, i, a, cancel_fetch, now, wake, clock, polls,
                   requests, reqStart, prevEnd, lastEnd, firstStart, late>>

\* next_fetch_time = Instant::now() + min_fetch_interval; decode the page,
\* walk it; if suffix == next_suffix { break } suffix = next_suffix; }  Ok(r)
FetchPage ==
    /\ inFetch("page")
    /\ next_fetch_time' = clock + min_fetch_interval
    /\ contents' = None
    /\ IF ~contents[1].json
       THEN /\ FetchReturn(Err(OldeError("JSONError", "page")))
            /\ fetchPc' = "returned"
            /\ UNCHANGED <<fetch_r, suffix, served, lastPage>>
       ELSE LET pkgs == contents[1].pkgs
                st == process_page([next_suffix |-> suffix, r |-> fetch_r],
                                   page_keys(pkgs), pkgs)
            IN  /\ fetch_r' = st.r
                /\ served' = Append(served, [cursor |-> suffix, keys |-> DOMAIN pkgs])
                /\ lastPage' =
                      Some([pkgs |-> pkgs,
                            emitted |-> process_page([next_suffix |-> suffix, r |-> {}],
                                                     page_keys(pkgs), pkgs).r])
                /\ IF suffix = st.next_suffix
                   THEN /\ FetchReturn(Ok(st.r))
                        /\ fetchPc' = "returned"
                        /\ suffix' = suffix
                   ELSE /\ suffix' = st.next_suffix
                        /\ fetchPc' = "poll"
                        /\ UNCHANGED <<r, taskPc, late>>
    /\ UNCHANGED <<mainVars, i, a, cancel_fetch, now, wake, clock, polls, requests,
                   reqStart, prevEnd, lastEnd, firstStart>>

\* time passes while the fetch runs (only the fetch reads the clock)
Tick ==
    /\ taskPc["r"] = "call"
    /\ clock < MaxClock
    /\ clock' = clock + 1
    /\ UNCHANGED <<mainVars, taskPc, r, i, a, cancel_fetch, fetchVars, histVars>>

(***************************************************************************)
(* main: error aggregation, the join and the report.                       *)
(***************************************************************************)
\* a short-circuiting aggregation: the first error alone
collect_errs_first(rr, ii, aa) ==
    IF is_err(rr) THEN <<rr.val>>
    ELSE IF is_err(ii) THEN <<ii.val>>
    ELSE IF is_err(aa) THEN <<aa.val>>
    ELSE <<>>

\* if r.is_err() { errs.push(..) } if i.is_err() { .. } if a.is_err() { .. }
collect_errs(rr, ii, aa) ==
    (IF is_err(rr) THEN <<rr.val>> ELSE <<>>)
        \o (IF is_err(ii) THEN <<ii.val>> ELSE <<>>)
        \o (IF is_err(aa) THEN <<aa.val>> ELSE <<>>)

\* a check of the first slot alone
MainCheck_first ==
    /\ mainPc = "check"
    /\ IF is_err(r)
       THEN /\ ret' = Some(Err(MultipleErrors(collect_errs(r, i, a))))
            /\ mainPc' = "returned"
       ELSE /\ ret' = ret
            /\ mainPc' = "join"
    /\ UNCHANGED <<taskPc, r, i, a, cancel_fetch, fetchVars, clock, printed,
                   joinVars, histVars>>

\* if r.is_err() || i.is_err() || a.is_err() { return Err(MultipleErrors(errs)) }
MainCheck ==
    /\ mainPc = "check"
    /\ IF is_err(r) \/ is_err(i) \/ is_err(a)
       THEN /\ ret' = Some(Err(MultipleErrors(collect_errs(r, i, a))))
            /\ mainPc' = "returned"
       ELSE /\ ret' = ret
            /\ mainPc' = "join"
    /\ UNCHANGED <<taskPc, r, i, a, cancel_fetch, fetchVars, clock, printed,
                   joinVars, histVars>>

\* one row of known_versions: (&rp.latest, vs, ats)
Row(latest, vs, ats) == [latest |-> latest, vs |-> vs, ats |-> ats]

\* an upsert that takes the latest of every match
upsert_last(kv, lp, ap, rp) ==
    LET k == rp.repology_name
    IN  IF k \notin DOMAIN kv
        THEN [n \in DOMAIN kv \cup {k} |->
                IF n = k THEN Row(rp.latest, {lp.version}, {ap.attribute})
                ELSE kv[n]]
        ELSE [kv EXCEPT ![k] = Row(rp.latest, @.vs \cup {lp.version},
                                   @.ats \cup {ap.attribute})]

\* an upsert that starts the row afresh at every match
upsert_afresh(kv, lp, ap, rp) ==
    LET k == rp.repology_name
    IN  [n \in DOMAIN kv \cup {k} |->
            IF n = k THEN Row(rp.latest, {lp.version}, {ap.attribute}) ELSE kv[n]]

\* match known_versions.get_mut(&rp.repology_name) { None => insert a new row
\* with rp.latest, Some(row) => add to the sets of the row }
upsert(kv, lp, ap, rp) ==
    LET k == rp.repology_name
    IN  IF k \notin DOMAIN kv
        THEN [n \in DOMAIN kv \cup {k} |->
                IF n = k THEN Row(rp.latest, {lp.version}, {ap.attribute})
                ELSE kv[n]]
        ELSE [kv EXCEPT ![k] = Row(@.latest, @.vs \cup {lp.version},
                                   @.ats \cup {ap.attribute})]

\* a loop that raises found_on_repology before it compares the names
RECURSIVE join_rp_hasty(_, _, _, _)
join_rp_hasty(st, lp, ap, rps) ==
    IF rps = <<>> THEN st
    ELSE LET rp == Head(rps)
         IN  IF ap.pname # rp.nixpkgs_attribute
             THEN join_rp_hasty([kv |-> st.kv, found |-> TRUE], lp, ap, Tail(rps))
             ELSE join_rp_hasty([kv |-> upsert(st.kv, lp, ap, rp), found |-> TRUE],
                                lp, ap, Tail(rps))

\* for rp in &repology_ps { if ap.pname != rp.name { continue } .. }
RECURSIVE join_rp(_, _, _, _)
join_rp(st, lp, ap, rps) ==
    IF rps = <<>> THEN st
    ELSE LET rp == Head(rps)
         IN  IF ap.pname # rp.nixpkgs_attribute
             THEN join_rp(st, lp, ap, Tail(rps))
             ELSE join_rp([kv |-> upsert(st.kv, lp, ap, rp), found |-> TRUE],
                          lp, ap, Tail(rps))

\* a loop that takes a package as found in available only once it is found
\* on repology
RECURSIVE join_ap_late(_, _, _, _)
join_ap_late(st, lp, aps, rps) ==
    IF aps = <<>> THEN st
    ELSE LET ap == Head(aps)
         IN  IF lp.name # ap.name THEN join_ap_late(st, lp, Tail(aps), rps)
             ELSE LET got == join_rp([kv |-> st.kv, found |-> FALSE], lp, ap, rps)
                  IN  join_ap_late(
                        [kv |-> got.kv,
                         missing_repology |->
                            IF got.found THEN st.missing_repology
                            ELSE Append(st.missing_repology, <<ap.pname, lp.name>>),
                         found |-> st.found \/ got.found],
                        lp, Tail(aps), rps)

\* for ap in &available_ps { if lp.name != ap.name { continue } .. }
RECURSIVE join_ap(_, _, _, _)
join_ap(st, lp, aps, rps) ==
    IF aps = <<>> THEN st
    ELSE LET ap == Head(aps)
         IN  IF lp.name # ap.name THEN join_ap(st, lp, Tail(aps), rps)
             ELSE LET got == join_rp([kv |-> st.kv, found |-> FALSE], lp, ap, rps)
                  IN  join_ap(
                        [kv |-> got.kv,
                         missing_repology |->
                            IF got.found THEN st.missing_repology
                            ELSE Append(st.missing_repology, <<ap.pname, lp.name>>),
                         found |-> TRUE],
                        lp, Tail(aps), rps)

\* for lp in &installed_ps { .. }
RECURSIVE join_lp(_, _, _, _)
join_lp(st, lps, aps, rps) ==
    IF lps = <<>> THEN st
    ELSE LET lp == Head(lps)
             got == join_ap([kv |-> st.kv, missing_repology |-> st.missing_repology,
                             found |-> FALSE], lp, aps, rps)
         IN  join_lp(
                [kv |-> got.kv,
                 missing_repology |-> got.missing_repology,
                 missing_available |->
                    IF got.found THEN st.missing_available
                    ELSE Append(st.missing_available, lp.name)],
                Tail(lps), aps, rps)

\* a join over an available set whose iteration order changes from one run
\* to the next, as that of a hashed set does
join_seeded(installed_ps, available_ps, repology_ps) ==
    LET asc == SortedAvailable(available_ps)
        order == IF clock % 2 = 0 THEN asc
                 ELSE [k \in 1..Len(asc) |-> asc[Len(asc) + 1 - k]]
    IN  join_lp([kv |-> <<>>, missing_repology |-> <<>>, missing_available |-> <<>>],
                SortedInstalled(installed_ps), order, SortedPackages(repology_ps))

\* the three nested loops over the three sets, each in its set's order
join(installed_ps, available_ps, repology_ps) ==
    join_lp([kv |-> <<>>, missing_repology |-> <<>>, missing_available |-> <<>>],
            SortedInstalled(installed_ps),
            SortedAvailable(available_ps),
            SortedPackages(repology_ps))

MainJoin ==
    /\ mainPc = "join"
    /\ LET st == join(i.val, a.val, r.val)
       IN  /\ known_versions' = st.kv
           /\ missing_available' = st.missing_available
           /\ missing_repology' = st.missing_repology
    /\ mainPc' = "report"
    /\ UNCHANGED <<taskPc, r, i, a, cancel_fetch, fetchVars, clock, ret, printed,
                   before, histVars>>

\* "<none>"
none_marker == <<60, 110, 111, 110, 101, 62>>

\* a report loop that skips nothing
skipped_never(row) == FALSE

\* if let Some(lv) = olv { if vs.contains(lv) { continue } }
skipped(row) == row.latest # None /\ row.latest[1] \in row.vs

\* println!("repology {} {:?} | nixpkgs {:?} {:?}", rn, olv.unwrap_or("<none>"), vs, ats)
Line(rn, row) ==
    [rn |-> rn,
     latest |-> IF row.latest = None THEN none_marker ELSE row.latest[1],
     vs |-> row.vs, ats |-> row.ats]

\* a report loop that ends after its first line
RECURSIVE report_first(_, _, _)
report_first(out, rns, kv) ==
    IF rns = <<>> THEN out
    ELSE LET rn == Head(rns)
         IN  IF skipped(kv[rn]) THEN report_first(out, Tail(rns), kv)
             ELSE Append(out, Line(rn, kv[rn]))

\* for (rn, (olv, vs, ats)) in &known_versions { .. }
RECURSIVE report(_, _, _)
report(out, rns, kv) ==
    IF rns = <<>> THEN out
    ELSE LET rn == Head(rns)
         IN  IF skipped(kv[rn]) THEN report(out, Tail(rns), kv)
             ELSE report(Append(out, Line(rn, kv[rn])), Tail(rns), kv)

\* (&str, &str) tuples order by their first component, then by their second
PairLess(x, y) ==
    IF x[1] # y[1] THEN StrLess(x[1], y[1]) ELSE StrLess(x[2], y[2])

\* missing_available.sort()
RECURSIVE insert_name(_, _)
insert_name(x, s) ==
    IF s = <<>> THEN <<x>>
    ELSE IF StrLess(x, Head(s)) THEN <<x>> \o s
    ELSE <<Head(s)>> \o insert_name(x, Tail(s))

RECURSIVE sort_names(_)
sort_names(s) ==
    IF s = <<>> THEN <<>> ELSE insert_name(Head(s), sort_names(Tail(s)))

\* missing_repology.sort()
RECURSIVE insert_pair(_, _)
insert_pair(x, s) ==
    IF s = <<>> THEN <<x>>
    ELSE IF PairLess(x, Head(s)) THEN <<x>> \o s
    ELSE <<Head(s)>> \o insert_pair(x, Tail(s))

\* a sort that leaves the pairs as the join pushed them
sort_pairs_none(s) == s

RECURSIVE sort_pairs(_)
sort_pairs(s) ==
    IF s = <<>> THEN <<>> ELSE insert_pair(Head(s), sort_pairs(Tail(s)))

\* the report loop, the two sorts, Ok(())
MainReport ==
    /\ mainPc = "report"
    /\ printed' = report(<<>>, SortedStrs(DOMAIN known_versions), known_versions)
    /\ missing_available' = sort_names(missing_available)
    /\ missing_repology' = sort_pairs(missing_repology)
    /\ ret' = Some(Ok("()"))
    /\ mainPc' = "returned"
    /\ UNCHANGED <<taskPc, r, i, a, cancel_fetch, fetchVars, clock, known_versions,
                   before, histVars>>

(***************************************************************************)
(* The program.  Spec follows the three threads with every answer the      *)
(* local tools may give and a short upstream listing; SpecFetch follows    *)
(* the fetch over every page of Pages; SpecRate lets the clock run freely  *)
(* between the steps of the fetch.                                         *)
(***************************************************************************)
InstalledLoad == InstalledCall(InstalledRuns)
AvailableLoad == AvailableCall(AvailableRuns)
CurlEnd == FetchCurlEnd(FewPages)

InstalledLoadFew == InstalledCall(FewInstalledRuns)
AvailableLoadFew == AvailableCall(FewAvailableRuns)
CurlEndPages == FetchCurlEnd(Pages)
CurlEndRate == FetchCurlEnd(RatePages)

Main ==
    \/ SpawnRepology
    \/ SpawnInstalled
    \/ SpawnAvailable
    \/ ScopeEnd
    \/ MainCheck
    \/ MainJoin
    \/ MainReport

FetchSteps ==
    \/ FetchEnter
    \/ FetchPoll
    \/ FetchNow
    \/ FetchThrottle
    \/ FetchWake
    \/ FetchRequest
    \/ FetchPage
    \/ RepologyFlag

Next ==
    \/ Main
    \/ FetchSteps
    \/ CurlEnd
    \/ InstalledLoad
    \/ InstalledFlag
    \/ AvailableLoad
    \/ AvailableFlag

Spec == Init /\ [][Next]_vars

NextFetch ==
    \/ Main
    \/ FetchSteps
    \/ CurlEndPages
    \/ InstalledLoadFew
    \/ InstalledFlag
    \/ AvailableLoadFew
    \/ AvailableFlag

SpecFetch == Init /\ [][NextFetch]_vars

NextRate ==
    \/ Main
    \/ FetchSteps
    \/ CurlEndRate
    \/ Tick
    \/ InstalledLoadFew
    \/ InstalledFlag
    \/ AvailableLoadFew
    \/ AvailableFlag

SpecRate == Init /\ [][NextRate]_vars

(***************************************************************************)
(* The join and the report on their own: SpecJoin starts where main has    *)
(* found three Ok slots, with every combination of the sets below in them. *)
(***************************************************************************)
\* the sets the installed loader may return: never empty
InstalledSets ==
    SUBSET {Installed(NameX, V1), Installed(NameX, V2), Installed(NameY, V1)}
        \ {{}}

\* the sets the available loader may return: never empty
AvailableSets ==
    SUBSET {Available(AttrA, NameX, SrcP, V1), Available(AttrB, NameX, SrcQ, V1),
            Available(AttrC, NameY, SrcP, V2)}
        \ {{}}

\* the sets the fetch may return: per project, the records of no, one or two
\* of the entry lists
RepologySets ==
    {UNION {insert_entries({}, k, vs, latest_of(vs)) :
                <<k, vs>> \in {kv \in ProjectKeys \X EntryLists : kv[2] \in f[kv[1]]}} :
        f \in [ProjectKeys -> {L \in SUBSET EntryLists : Cardinality(L) <= 2}]}

InitJoin ==
    /\ mainPc = "join"
    /\ taskPc = [t \in Tasks |-> "done"]
    /\ r \in {Ok(ps) : ps \in RepologySets}
    /\ i \in {Ok(ps) : ps \in InstalledSets}
    /\ a \in {Ok(ps) : ps \in AvailableSets}
    /\ cancel_fetch = FALSE
    /\ fetchPc = "returned"
    /\ fetch_r = {}
    /\ suffix = <<>>
    /\ next_fetch_time = 0
    /\ now = 0
    /\ wake = 0
    /\ contents = None
    /\ clock = 0
    /\ ret = None
    /\ printed = <<>>
    /\ known_versions = <<>>
    /\ missing_available = <<>>
    /\ missing_repology = <<>>
    /\ before = None
    /\ polls = 0
    /\ requests = 0
    /\ reqStart = None
    /\ prevEnd = None
    /\ lastEnd = None
    /\ firstStart = None
    /\ served = <<>>
    /\ lastPage = None
    /\ late = [sleeps |-> 0, requests |-> 0]

\* the program is run once more, later, on the same three sets
Rerun ==
    /\ mainPc = "returned"
    /\ before = None
    /\ before' = Some([printed |-> printed, known_versions |-> known_versions,
                       missing_available |-> missing_available,
                       missing_repology |-> missing_repology])
    /\ mainPc' = "join"
    /\ ret' = None
    /\ printed' = <<>>
    /\ known_versions' = <<>>
    /\ missing_available' = <<>>
    /\ missing_repology' = <<>>
    /\ clock' = clock + 1
    /\ UNCHANGED <<taskPc, r, i, a, cancel_fetch, fetchVars, histVars>>

NextJoin ==
    \/ MainJoin
    \/ MainReport
    \/ Rerun

SpecJoin == InitJoin /\ [][NextJoin]_vars

(***************************************************************************)
(* The fetch against an upstream that serves a finite listing, the         *)
(* projects of Listing in key order, and whose every answer decodes;       *)
(* each thread, once started, keeps running.                               *)
(***************************************************************************)
\* the requests one fetch can make before the cap on the requests or the cap
\* on the clock stops it: the first goes out at once, each later one after a
\* sleep of min_fetch_interval
Horizon ==
    LET sleeps == (MaxClock + min_fetch_interval - 1) \div min_fetch_interval
    IN  IF sleeps + 1 < MaxRequests THEN sleeps + 1 ELSE MaxRequests

\* the listing: the first projects, as many as a fetch can go through with
\* one request left for the page that ends it
Listing ==
    {k \in ProjectKeys :
        Cardinality({j \in ProjectKeys : StrLess(j, k)}) < Horizon - 1}

\* the cursor that ends the listing
last_cursor == (CHOOSE k \in Listing : \A j \in Listing : j = k \/ StrLess(j, k))
                  \o <<47>>

\* the cursor a page of the keys K leads to
cursor_of(K) == (CHOOSE k \in K : \A j \in K : j = k \/ StrLess(j, k)) \o <<47>>

\* the pages such an upstream may answer the cursor c with: the greatest key
\* is not before the cursor, and is past it unless the cursor ends the listing
ListingPages(c) ==
    {[k \in K |-> <<E_out>>] :
        K \in {S \in SUBSET Listing :
                 /\ S # {}
                 /\ ~StrLess(cursor_of(S), c)
                 /\ c # last_cursor => StrLess(c, cursor_of(S))}}

\* run_cmd(..) succeeds with a page of the listing
CurlEndListing ==
    /\ inFetch("curl")
    /\ lastEnd' = Some(clock)
    /\ \E pkgs \in ListingPages(suffix) :
         contents' = Some(Body(TRUE, pkgs))
    /\ fetchPc' = "page"
    /\ UNCHANGED <<mainVars, taskPc, r, i, a, cancel_fetch, fetch_r, suffix,
                   next_fetch_time, now, wake, clock, polls, requests, reqStart,
                   prevEnd, firstStart, served, lastPage, late>>

NextLive ==
    \/ Main
    \/ FetchSteps
    \/ CurlEndListing
    \/ InstalledLoadFew
    \/ InstalledFlag
    \/ AvailableLoadFew
    \/ AvailableFlag

\* the process does not stop while main or one of the three threads has a
\* next step: every thread is an OS thread that runs to its return, and the
\* upstream answers every request
SpecLive ==
    /\ Init
    /\ [][NextLive]_vars
    /\ WF_vars(NextLive)

(***************************************************************************)
(* Properties.                                                             *)
(***************************************************************************)
\* the threads whose slot holds an error
failed == {t \in Tasks : is_err(slot(t))}

\* get_packages has returned Ok
fetchOk == fetchPc = "returned" /\ is_ok(r)

\* C1: once main has returned with k >= 1 failed tasks, its result is
\* Err(MultipleErrors(errs)) where errs holds exactly k errors: the error of
\* every failed task and nothing else.
C1_AggregateComplete ==
    (mainPc = "returned" /\ failed # {}) =>
        /\ ret # None
        /\ is_err(ret[1])
        /\ ret[1].val.kind = "MultipleErrors"
        /\ LET errs == ret[1].val.errs
           IN  /\ Len(errs) = Cardinality(failed)
               /\ \A t \in failed : \E k \in 1..Len(errs) : errs[k] = slot(t).val
               /\ \A k \in 1..Len(errs) : \E t \in failed : errs[k] = slot(t).val

\* main returned after exactly two of the three tasks failed
C1_Witness ==
    /\ mainPc = "returned"
    /\ Cardinality(failed) = 2
    /\ Len(ret[1].val.errs) = 2

C3_CancelAtLoopHead ==
    /\ [][(inFetch("poll") /\ polls' # polls) =>
            IF cancel_fetch
            THEN /\ r' = Err(Canceled)
                 /\ fetchPc' = "returned"
                 /\ requests' = requests
            ELSE /\ fetchPc' = "now"
                 /\ r' = r]_vars
    /\ [][requests' # requests => polls = requests + 1]_vars
    /\ [][r = Err(Canceled) => (requests' = requests /\ r' = r)]_vars

\* the fetch was canceled after it had accumulated records
C3_Witness ==
    /\ r = Err(Canceled)
    /\ fetch_r # {}
    /\ requests >= 1

\* C4: a thread that is over with an error in its slot has stored true into
\* the flag, the flag is never true before some slot holds an error, and when
\* main checks the slots the flag is true if a task failed.
C4_FlagRaisedOnFailure ==
    /\ \A t \in Tasks : (taskPc[t] = "done" /\ is_err(slot(t))) => cancel_fetch
    /\ cancel_fetch => failed # {}
    /\ (mainPc = "check" /\ failed # {}) => cancel_fetch

\* main is about to aggregate and a loader has failed
C4_Witness ==
    /\ mainPc = "check"
    /\ is_err(a)
    /\ cancel_fetch

\* C5: the scope starts the three threads, and main is past the scope only
\* when each of them is over.
C5_JoinedBeforeRead ==
    /\ mainPc \notin {"spawn_r", "spawn_i", "spawn_a"} =>
          Cardinality({t \in Tasks : taskPc[t] # "unspawned"}) = 3
    /\ mainPc \in {"check", "join", "report", "returned", "panicked"} =>
          \A t \in Tasks : finished(t)
    /\ mainPc \in {"check", "join", "report", "returned"} =>
          \A t \in Tasks : taskPc[t] = "done"

\* main reads the slots
C5_Witness ==
    /\ mainPc = "check"
    /\ \A t \in Tasks : taskPc[t] = "done"

\* C6: the join and the report run only with three Ok slots written by
\* threads that are over; with a failed task main returns the aggregate and
\* has printed nothing and joined nothing.
C6_NoJoinOnFailure ==
    /\ mainPc \in {"join", "report"} =>
          \A t \in Tasks : taskPc[t] = "done" /\ is_ok(slot(t))
    /\ (mainPc = "returned" /\ failed # {}) =>
          /\ is_err(ret[1])
          /\ printed = <<>>
          /\ known_versions = <<>>
          /\ missing_available = <<>>
          /\ missing_repology = <<>>
    /\ (mainPc = "returned" /\ is_ok(ret[1])) => failed = {}

\* main returned the aggregate of a loader's failure while the fetch had succeeded
C6_Witness ==
    /\ mainPc = "returned"
    /\ is_ok(r)
    /\ r.val # {}
    /\ is_err(i)
    /\ printed = <<>>

\* the key of a page that sorts last
Greatest(keys) == CHOOSE k \in keys : \A j \in keys : j = k \/ StrLess(j, k)

\* the candidate cursor after the k-th decoded page
Candidate(k) ==
    IF served[k].keys = {} THEN served[k].cursor
    ELSE Greatest(served[k].keys) \o <<47>>

\* C7: the first cursor is empty; after each page the candidate is the
\* greatest key of the page followed by "/", or the cursor when the page is
\* empty; the fetch returns Ok with the accumulated set, without a further
\* request, exactly when the candidate equals the cursor, and otherwise asks
\* for the candidate next; three pages of which the third has the greatest
\* key of the second take three requests.
C7_CursorAdvance ==
    LET n == Len(served)
    IN  /\ n = 0 => ~fetchOk
        /\ n >= 1 => served[1].cursor = <<>>
        /\ \A k \in 1..(n - 1) :
              /\ Candidate(k) # served[k].cursor
              /\ served[k + 1].cursor = Candidate(k)
        /\ n >= 1 =>
              IF Candidate(n) = served[n].cursor
              THEN fetchOk /\ r.val = fetch_r /\ requests = n
              ELSE ~fetchOk /\ (fetchPc # "returned" => suffix = Candidate(n))
        /\ (/\ n >= 3
            /\ served[2].keys # {}
            /\ served[3].keys # {}
            /\ Greatest(served[3].keys) = Greatest(served[2].keys)) =>
              fetchOk /\ requests = 3

\* three pages, the third with the greatest key of the second, of two keys
C7_Witness ==
    /\ Len(served) = 3
    /\ Cardinality(served[2].keys) = 2
    /\ served[3].keys # {}
    /\ Greatest(served[3].keys) = Greatest(served[2].keys)
    /\ fetchOk
    /\ requests = 3

C9_LatestConsistent ==
    fetchOk =>
        \A x \in r.val : \A y \in r.val :
            x.repology_name = y.repology_name => x.latest = y.latest

\* the positions of the entries whose status is newest or unique
NewestAt(vs) ==
    {k \in 1..Len(vs) : vs[k].status = Some(newest) \/ vs[k].status = Some(unique)}

joined ==
    \/ mainPc = "report"
    \/ mainPc = "returned" /\ ret # None /\ is_ok(ret[1])

\* the elements of a sequence
Range(s) == {s[k] : k \in DOMAIN s}

\* the installed packages no available package is named like
unmatched == {lp \in i.val : ~\E ap \in a.val : ap.name = lp.name}

\* C11: after the join an installed name is in missing_available iff no
\* available package has exactly that name, and the rows are those of the
\* join over the installed packages that have an available match.
C11_MissingIffNoMatch ==
    joined =>
        /\ \A lp \in i.val :
              lp.name \in Range(missing_available)
                  <=> ~\E ap \in a.val : ap.name = lp.name
        /\ Range(missing_available) \subseteq {lp.name : lp \in i.val}
        /\ known_versions = join(i.val \ unmatched, a.val, r.val).kv

\* one installed package has no available match, another has a match that
\* is not on repology, and a row was built
C11_Witness ==
    /\ joined
    /\ unmatched # {}
    /\ \E lp \in i.val \ unmatched : \E ap \in a.val :
          /\ ap.name = lp.name
          /\ \A rp \in r.val : ap.pname # rp.nixpkgs_attribute
    /\ known_versions # <<>>

\* the triples (lp, ap, rp) that match on name and on short name, for key k
triples(k) ==
    {t \in i.val \X a.val \X r.val :
        /\ t[1].name = t[2].name
        /\ t[2].pname = t[3].nixpkgs_attribute
        /\ t[3].repology_name = k}

\* C12: after the join a row exists for key k iff some triple matches for k;
\* its installed versions are exactly the lp.version of the triples and its
\* attributes exactly their ap.attribute.
C12_RowsAreTriples ==
    joined =>
        /\ DOMAIN known_versions = {rp.repology_name : rp \in {x \in r.val : triples(x.repology_name) # {}}}
        /\ \A k \in DOMAIN known_versions :
              /\ known_versions[k].vs = {t[1].version : t \in triples(k)}
              /\ known_versions[k].ats = {t[2].attribute : t \in triples(k)}

\* a row with two versions and two attributes, made of more triples than
\* values, next to a project that has records and no row
C12_Witness ==
    /\ joined
    /\ \E k \in DOMAIN known_versions :
          /\ Cardinality(known_versions[k].vs) = 2
          /\ Cardinality(known_versions[k].ats) >= 2
          /\ Cardinality(triples(k)) > 2
    /\ \E rp \in r.val : rp.repology_name \notin DOMAIN known_versions

\* C13: once main has returned Ok, every row whose latest is present and not
\* among its installed versions has exactly one line in the report, which
\* carries that latest and the row's whole version and attribute sets.
C13_OutdatedAllReported ==
    (mainPc = "returned" /\ ret # None /\ is_ok(ret[1])) =>
        \A rn \in DOMAIN known_versions :
            LET row == known_versions[rn]
            IN  (row.latest # None /\ row.latest[1] \notin row.vs) =>
                    /\ Cardinality({k \in 1..Len(printed) : printed[k].rn = rn}) = 1
                    /\ \E k \in 1..Len(printed) :
                          /\ printed[k].rn = rn
                          /\ printed[k].latest = row.latest[1]
                          /\ printed[k].vs = row.vs
                          /\ printed[k].ats = row.ats

\* two outdated projects are reported, one of them with two attributes
C13_Witness ==
    /\ mainPc = "returned"
    /\ Cardinality({rn \in DOMAIN known_versions :
                        /\ known_versions[rn].latest # None
                        /\ known_versions[rn].latest[1] \notin known_versions[rn].vs}) = 2
    /\ Len(printed) >= 2
    /\ \E k \in 1..Len(printed) :
          printed[k].latest # none_marker /\ Cardinality(printed[k].ats) = 2

\* C14: with the flag set the fetch starts at most one more curl and ends at
\* most one more sleep, a sleep is asked for at most min_fetch_interval, and
\* the next pass of the loop head returns Err(Canceled): the fetch is over one
\* sleep and one page fetch after the store at the latest.
C14_CancelLatency ==
    /\ [](late.requests <= 1 /\ late.sleeps <= 1)
    /\ [](inFetch("sleep") => next_fetch_time - now <= min_fetch_interval)
    /\ [][(cancel_fetch /\ inFetch("poll") /\ polls' # polls) =>
            (r' = Err(Canceled) /\ fetchPc' = "returned" /\ requests' = requests)]_vars
\* the flag was stored while the fetch was about to sleep: it slept, fetched
\* one more page and is back at the loop head
C14_Witness ==
    /\ inFetch("poll")
    /\ cancel_fetch
    /\ late.requests = 1
    /\ late.sleeps = 1
    /\ requests >= 2

\* what the slot and the position of a loader's thread are after its call,
\* given what the call returned
after_call(t, res) ==
    IF res.tag = "Panic" THEN taskPc'[t] = "panicked" /\ slot(t)' = slot(t)
    ELSE taskPc'[t] = "stored" /\ slot(t)' = res

\* what the loaders may make of the answers of the local tools
InstalledResults == {installed_get_packages(run) : run \in InstalledRuns}
AvailableResults == {available_get_packages(run) : run \in AvailableRuns}

\* C15: a loader's result is never Canceled; while a loader is in its call,
\* whatever the flag, each answer of the local tools is still open to it; and
\* a step that ends the call leaves what the loader makes of the tools'
\* answers, the flag untouched.
C15_LoadersIgnoreFlag ==
    /\ [](\A t \in {"i", "a"} : is_err(slot(t)) => slot(t).val.kind # "Canceled")
    /\ [](taskPc["i"] = "call" =>
            \A res \in InstalledResults : ENABLED (InstalledLoad /\ after_call("i", res)))
    /\ [](taskPc["a"] = "call" =>
            \A res \in AvailableResults : ENABLED (AvailableLoad /\ after_call("a", res)))
    /\ [][(taskPc["i"] = "call" /\ taskPc'["i"] # "call") =>
            /\ \E res \in InstalledResults : after_call("i", res)
            /\ cancel_fetch' = cancel_fetch]_vars
    /\ [][(taskPc["a"] = "call" /\ taskPc'["a"] # "call") =>
            /\ \E res \in AvailableResults : after_call("a", res)
            /\ cancel_fetch' = cancel_fetch]_vars

\* the fetch has been canceled after the available loader failed, and the
\* installed loader, still in its call, goes on to return its packages
C15_Witness ==
    /\ r = Err(Canceled)
    /\ is_err(a)
    /\ cancel_fetch
    /\ taskPc["i"] = "call"
    /\ ENABLED (InstalledLoad /\ is_ok(i') /\ i'.val # {})

\* a step of thread t: the thread is running and moves, or, for the fetch,
\* one of its locals changes
step_of(t) ==
    /\ taskPc[t] \in {"call", "stored"}
    /\ \/ taskPc'[t] # taskPc[t]
       \/ t = "r" /\ fetchVars' # fetchVars

\* C16: a step of one thread leaves the slots of the other two as they are;
\* a slot changes only in a step of its own thread, in its call; and the flag
\* changes only from false to true, in a step of a thread whose slot holds
\* an error.
C16_OwnSlotOnly ==
    /\ [][\A t \in Tasks : step_of(t) =>
            \A u \in Tasks \ {t} : slot(u)' = slot(u)]_vars
    /\ [][\A t \in Tasks : slot(t)' # slot(t) =>
            (step_of(t) /\ taskPc[t] = "call")]_vars
    /\ [][cancel_fetch' # cancel_fetch =>
            /\ cancel_fetch' = TRUE
            /\ \E t \in Tasks :
                  step_of(t) /\ taskPc[t] = "stored" /\ is_err(slot(t))]_vars

\* a loader has failed and raised the flag, the other holds its packages,
\* and the fetch, in the middle of a page, has not written its slot
C16_Witness ==
    /\ taskPc["i"] = "done" /\ is_err(i)
    /\ taskPc["a"] = "stored" /\ is_ok(a) /\ a.val # {}
    /\ inFetch("page")
    /\ fetch_r # {}
    /\ r = Ok({})

\* the tools ran and gave no package: no derivation, or none with both a
\* name and a version
no_installed(run) ==
    /\ run.flake = "ok" \/ run.nixos = "ok"
    /\ run.show = "ok"
    /\ \A d \in run.drvs : d.name = None \/ d.version = None

no_available(run) ==
    /\ run.canonicalize = "ok"
    /\ run.archive # "garbage"
    /\ run.query = "ok"
    /\ run.ps = {}

\* a slot holds the EmptyOutput error
empty_output(t) == is_err(slot(t)) /\ slot(t).val.kind = "EmptyOutput"

\* a loader call that parsed no package is Err(EmptyOutput), and no other is
empty_is_error ==
    /\ \A run \in InstalledRuns :
          no_installed(run) <=>
              installed_get_packages(run) = Err(OldeError("EmptyOutput", "nix show-derivation"))
    /\ \A run \in AvailableRuns :
          no_available(run) <=>
              available_get_packages(run) = Err(OldeError("EmptyOutput", "nix-env query"))

\* C17: a loader that has returned Ok holds a non-empty set; a loader whose
\* tools ran and gave no package returns EmptyOutput, and returns it in no
\* other case; the thread of such a loader sets the flag, and main returns
\* the aggregate with that error in it.
C17_EmptyOutputIsError ==
    /\ \A t \in {"i", "a"} :
          /\ (taskPc[t] \in {"stored", "done"} /\ is_ok(slot(t))) => slot(t).val # {}
          /\ (taskPc[t] = "done" /\ empty_output(t)) => cancel_fetch
          /\ (mainPc = "returned" /\ empty_output(t)) =>
                /\ is_err(ret[1])
                /\ \E k \in 1..Len(ret[1].val.errs) : ret[1].val.errs[k] = slot(t).val
    /\ empty_is_error

\* both loaders gave no package, the installed one from derivations that
\* lack a version, and main returned both errors
C17_Witness ==
    /\ mainPc = "returned"
    /\ empty_output("i")
    /\ empty_output("a")
    /\ cancel_fetch
    /\ Len(ret[1].val.errs) >= 2
    /\ \E run \in InstalledRuns : run.drvs # {} /\ no_installed(run)

\* C18 as stated: a fetch that has returned Ok holds at least one record.
C18_EmptyFetchIsError ==
    fetchOk => r.val # {}

\* the kinds of error a request or its body may end the fetch with
request_errors == {"IOError", "CommandFailed", "JSONError"}

\* C19: the step that ends a curl either hands its body on or returns the
\* curl's error; the step that takes a body that does not decode returns
\* JSONError; neither starts a request, and once the slot of the fetch holds
\* an error no request is started and the slot stays: the records gathered
\* so far are returned to no one.
C19_RequestFailureIsFatal ==
    /\ [][inFetch("curl") /\ fetchPc' # "curl" =>
            /\ requests' = requests
            /\ \/ fetchPc' = "page" /\ contents' # None /\ r' = r
               \/ /\ fetchPc' = "returned"
                  /\ is_err(r')
                  /\ r'.val.kind \in {"IOError", "CommandFailed"}]_vars
    /\ [][(inFetch("page") /\ ~contents[1].json /\ fetchPc' # "page") =>
            /\ requests' = requests
            /\ fetchPc' = "returned"
            /\ r' = Err(OldeError("JSONError", "page"))]_vars
    /\ [][is_err(r) => (requests' = requests /\ r' = r /\ fetchPc' = fetchPc)]_vars

\* a request failed, or its body did not decode, after earlier pages had
\* given records
C19_Witness ==
    /\ is_err(r)
    /\ r.val.kind \in request_errors
    /\ requests >= 2
    /\ fetch_r # {}

\* the entries of a page that are of the requested repository and carry a
\* srcname, as (project, srcname, version, status)
wanted(pkgs) ==
    {<<n, pkgs[n][k].srcname[1], pkgs[n][k].version, pkgs[n][k].status>> :
        <<n, k>> \in {nk \in (DOMAIN pkgs) \X (1..4) :
                        /\ nk[2] <= Len(pkgs[nk[1]])
                        /\ pkgs[nk[1]][nk[2]].repo = repology_repo
                        /\ pkgs[nk[1]][nk[2]].srcname # None}}

\* a page has an entry of the requested repository without srcname
has_nosrc(pkgs) ==
    \E n \in DOMAIN pkgs : \E k \in 1..Len(pkgs[n]) :
        pkgs[n][k].repo = repology_repo /\ pkgs[n][k].srcname = None

C21_ReportOrdered ==
    (mainPc = "returned" /\ ret # None /\ is_ok(ret[1])) =>
        /\ \A k \in 1..(Len(printed) - 1) : StrLess(printed[k].rn, printed[k + 1].rn)
        /\ \A k \in 1..(Len(missing_available) - 1) :
              ~StrLess(missing_available[k + 1], missing_available[k])
        /\ \A k \in 1..(Len(missing_repology) - 1) :
              ~PairLess(missing_repology[k + 1], missing_repology[k])

\* two projects were reported, and both lists of missing packages have an entry
C21_Witness ==
    /\ mainPc = "returned"
    /\ Len(printed) >= 2
    /\ Len(missing_available) >= 1
    /\ Len(missing_repology) >= 1

\* C22 as stated, with MaxRequests for the maximum: a fetch that has started
\* MaxRequests curls does not come to start another.
C22_MaxPageCount ==
    ~(inFetch("request") /\ requests >= MaxRequests)

TripleLess(t, u) ==
    IF t[1] # u[1] THEN InstalledLess(t[1], u[1])
    ELSE IF t[2] # u[2] THEN AvailableLess(t[2], u[2])
    ELSE PackageLess(t[3], u[3])

\* the first and the last match for key k
first_match(k) == CHOOSE t \in triples(k) : \A u \in triples(k) \ {t} : TripleLess(t, u)
last_match(k) == CHOOSE t \in triples(k) : \A u \in triples(k) \ {t} : TripleLess(u, t)

pairs == {p \in i.val \X a.val : p[1].name = p[2].name}

\* C25: after the join missing_repology holds (ap.pname, lp.name) for
\* exactly the pairs (lp, ap) of one name for which no upstream record has
\* ap.pname for its short name.
C25_MissingFromUpstream ==
    joined =>
        Range(missing_repology) =
            {<<p[2].pname, p[1].name>> :
                p \in {q \in pairs : \A rp \in r.val : rp.nixpkgs_attribute # q[2].pname}}

\* one pair is on repology and another is not, next to an installed package
\* without available match
C25_Witness ==
    /\ joined
    /\ missing_repology # <<>>
    /\ known_versions # <<>>
    /\ unmatched # {}

\* C26: the fetch starts from the empty set; its set changes only when a
\* page is processed, and then becomes its union with the records of that
\* page, the last page of the listing included; and a fetch that returned Ok
\* returned that set.
C26_ResultIsUnion ==
    /\ [][(inFetch("enter") /\ fetchPc' # "enter") => fetch_r' = {}]_vars
    /\ [][fetch_r' # fetch_r => (inFetch("page") /\ contents[1].json)]_vars
    /\ [][(inFetch("page") /\ contents[1].json /\ fetchPc' # "page") =>
            /\ lastPage' # None
            /\ lastPage'[1].pkgs = contents[1].pkgs
            /\ fetch_r' = fetch_r \cup lastPage'[1].emitted
            /\ fetchPc' = "returned" => r' = Ok(fetch_r')]_vars
    /\ [](fetchOk => r.val = fetch_r)

\* a fetch of three pages returned more records than its last page gave,
\* among them all those of the last page
C26_Witness ==
    /\ fetchOk
    /\ Len(served) = 3
    /\ lastPage # None
    /\ lastPage[1].emitted # {}
    /\ lastPage[1].emitted # r.val
    /\ Cardinality(r.val) >= 3

\* C27: the flag is false when main starts the threads; a step never takes
\* it from true to false; it becomes true only in the step that ends a
\* thread whose slot holds an error; and while it is true some slot holds an
\* error.
C27_FlagMonotone ==
    /\ [](mainPc = "spawn_r" => ~cancel_fetch)
    /\ [][cancel_fetch => cancel_fetch']_vars
    /\ [][(~cancel_fetch /\ cancel_fetch') =>
            \E t \in Tasks :
                taskPc[t] = "stored" /\ taskPc'[t] = "done" /\ is_err(slot(t))]_vars
    /\ [](cancel_fetch => failed # {})

\* one loader failed and raised the flag; the fetch and the other loader
\* ended without error, and main returned
C27_Witness ==
    /\ cancel_fetch
    /\ failed = {"i"}
    /\ is_ok(r) /\ r.val # {}
    /\ \A t \in Tasks : taskPc[t] = "done"
    /\ mainPc = "returned"

\* C28: while the slot of the fetch holds Canceled, a loader is over with an
\* error of its own in its slot; so the aggregate main returns with Canceled
\* in it holds a loader's error too, and with two Ok loaders the fetch is
\* not Canceled.
C28_CanceledImpliesLoaderFailed ==
    /\ r = Err(Canceled) =>
          \E t \in {"i", "a"} :
              /\ taskPc[t] = "done"
              /\ is_err(slot(t))
              /\ slot(t).val.kind # "Canceled"
    /\ (mainPc = "returned" /\ ret # None /\ is_err(ret[1])) =>
          LET errs == ret[1].val.errs
          IN  (\E k \in 1..Len(errs) : errs[k] = Canceled) =>
                  /\ Len(errs) >= 2
                  /\ \E k \in 1..Len(errs) : errs[k].kind # "Canceled"
    /\ (is_ok(i) /\ is_ok(a) /\ taskPc["i"] = "done" /\ taskPc["a"] = "done") =>
          r # Err(Canceled)

\* main returned Canceled and the error of the one loader that failed
C28_Witness ==
    /\ mainPc = "returned"
    /\ r = Err(Canceled)
    /\ is_ok(a)
    /\ ret[1].val.errs = <<Canceled, i.val>>

\* the errors of the two methods
flake_error == OldeError("CommandFailed", "nix eval")
nixos_error == OldeError("CommandFailed", "nix-instantiate")

\* every call of get_local_system_derivation, by the outcome of the methods
flake_then_nixos ==
    \A run \in InstalledRuns :
        LET res == get_local_system_derivation(run)
        IN  /\ methods_run(run)[1] = "flake"
            /\ run.flake = "ok" =>
                  res = Ok("flake drv") /\ methods_run(run) = <<"flake">>
            /\ (run.flake = "fail" /\ run.nixos = "ok") =>
                  res = Ok("nixos drv") /\ methods_run(run) = <<"flake", "nixos">>
            /\ (run.flake = "fail" /\ run.nixos = "fail") =>
                  /\ res = Err(MultipleErrors(<<flake_error, nixos_error>>))
                  /\ methods_run(run) = <<"flake", "nixos">>
                  /\ installed_get_packages(run) = res

\* C30: the flake method is called first and the nixos method only after the
\* flake method failed; the result is the first success, or, when both
\* failed, MultipleErrors of the flake error and the nixos error in that
\* order; and that is the error the installed loader then ends with.
C30_FlakeThenNixos ==
    /\ flake_then_nixos
    /\ (is_err(i) /\ i.val.kind = "MultipleErrors") =>
          i.val.errs = <<flake_error, nixos_error>>

\* both methods failed, and main returned the loader's MultipleErrors
C30_Witness ==
    /\ mainPc = "returned"
    /\ i = Err(MultipleErrors(<<flake_error, nixos_error>>))
    /\ \E k \in 1..Len(ret[1].val.errs) : ret[1].val.errs[k] = i.val
    /\ \E run \in InstalledRuns :
          run.flake = "fail" /\ run.nixos = "ok" /\ is_ok(installed_get_packages(run))

\* C29: against an upstream that serves a finite listing and never fails, a
\* run in which the flag stays false comes to a fetch that has returned Ok
\* and to a main that has returned.  The flag never falls and a return is
\* final, so this is: every run comes to a raised flag or to both returns.
C29_FetchTerminates ==
    <>(cancel_fetch \/ (fetchOk /\ mainPc = "returned"))

\* the fetch went through the listing one project a page, returned Ok after
\* the page that did not move the cursor, and main returned Ok
C29_Witness ==
    /\ fetchOk
    /\ requests = Cardinality(Listing) + 1
    /\ Cardinality(Listing) >= 2
    /\ suffix = last_cursor
    /\ ~cancel_fetch
    /\ mainPc = "returned"
    /\ ret = Some(Ok("()"))

\* discovery of the flake's nixpkgs input failed in this call
discovery_failed(run) == run.canonicalize = "fail" \/ run.archive = "fail"

\* the calls the result in the slot a may have come from
calls_behind_a == {run \in AvailableRuns : available_get_packages(run) = a}

\* C31 as stated: once the available loader has returned, a call in which
\* discovery failed, in either way, has run the nix-env query, with the
\* query arguments as they were at the start.
C31_DiscoveryFailureNeverFails ==
    taskPc["a"] \in {"stored", "done"} =>
        \A run \in calls_behind_a :
            discovery_failed(run) =>
                /\ available_steps(run)[Len(available_steps(run))] = "nix-env"
                /\ query_cmd(run) = nix_env_cmd

====
